---- MODULE Spec2Model ----
(***************************************************************************)
(* Model of the vscode-open-url extension (src/src/extension.ts).          *)
(*                                                                         *)
(* Strings are sequences of atoms.  An atom is an indivisible piece of     *)
(* text: the characters the code looks at individually ("$", "{", "}",     *)
(* ":", "/", ".", " ") are atoms of their own, every other atom is a word  *)
(* that holds none of those characters, and no word can be obtained by     *)
(* concatenating other atoms.  String equality, startsWith, split,         *)
(* lastIndexOf and the regular expression of expandVariables can then be   *)
(* computed on the atoms exactly as the code computes them on characters.  *)
(*                                                                         *)
(* JavaScript values are records [k, s]: k is the kind of the value and s  *)
(* its String(...) form (for a string, its content).                       *)
(***************************************************************************)
EXTENDS Integers, Sequences, FiniteSets, TLC

VARIABLES
    nRaw, nOut, nPc,             \* normalizeConfigEntries applied to one input
    eTemplate, eCtx, eOut, ePc,  \* expandVariables applied to one template
    config, context, changes,    \* the host: the setting, the editor context
    inv                          \* the command invocations

vars == <<nRaw, nOut, nPc, eTemplate, eCtx, eOut, ePc, config, context, changes, inv>>

(***************************************************************************)
(* Bounds of the model.                                                    *)
(***************************************************************************)
MaxRawLen == 2      \* longest raw configuration list drawn for normalizeConfigEntries
MaxSegs == 2        \* most pieces a drawn template is concatenated from
MaxChanges == 2     \* most changes of the setting or the editor context during a run

(***************************************************************************)
(* JavaScript values.                                                      *)
(***************************************************************************)
Str(s) == [k |-> "string", s |-> s]
Undefined == [k |-> "undefined", s |-> <<"undefined">>]
Null == [k |-> "null", s |-> <<"null">>]
Num0 == [k |-> "number", s |-> <<"0">>]
Num42 == [k |-> "number", s |-> <<"42">>]
True == [k |-> "boolean", s |-> <<"true">>]
False == [k |-> "boolean", s |-> <<"false">>]

\* An element of the raw list: a primitive, or an object with its url and label
\* properties (Undefined when the object has no such property).
Prim(v) == [k |-> v.k, s |-> v.s, url |-> Undefined, label |-> Undefined]
Obj(url, label) == [k |-> "object", s |-> <<"[object Object]">>, url |-> url, label |-> label]

\* typeof v
TypeOf(v) == IF v.k = "null" THEN "object" ELSE v.k

\* the truthiness of a value, as in it.url, !template, e.label ? ... : ...
Truthy(v) ==
    CASE v.k = "string" -> v.s # <<>>
      [] v.k = "number" -> v.s # <<"0">>
      [] v.k = "boolean" -> v.s = <<"true">>
      [] v.k = "object" -> TRUE
      [] OTHER -> FALSE

\* v ?? d
Nullish(v) == v.k \in {"undefined", "null"}

(***************************************************************************)
(* normalizeConfigEntries.  A result is [threw, entries]: threw is TRUE    *)
(* when the call ends with a TypeError instead of returning.               *)
(***************************************************************************)
UrlEntry(label, url) == [label |-> label, url |-> url]

\* The callback of raw.map with the fallback of line 16 taking the url property.
NormalizeEntryUrlFallback(it) ==
    IF TypeOf(it) = "string"
    THEN [threw |-> FALSE, entry |-> UrlEntry(Undefined, Str(it.s))]
    ELSE IF TypeOf(it) = "object" /\ it.k = "null"
    THEN [threw |-> TRUE, entry |-> UrlEntry(Undefined, Undefined)]
    ELSE IF TypeOf(it) = "object" /\ Truthy(it.url)
    THEN [threw |-> FALSE, entry |-> UrlEntry(it.label, it.url)]
    ELSE [threw |-> FALSE, entry |-> UrlEntry(Undefined, it.url)]

\* The callback of raw.map, lines 9-17.  it.url on null is a TypeError:
\* typeof null is "object", so line 13 reads the property.
NormalizeEntry(it) ==
    IF TypeOf(it) = "string"
    THEN [threw |-> FALSE, entry |-> UrlEntry(Undefined, Str(it.s))]
    ELSE IF TypeOf(it) = "object" /\ it.k = "null"
    THEN [threw |-> TRUE, entry |-> UrlEntry(Undefined, Undefined)]
    ELSE IF TypeOf(it) = "object" /\ Truthy(it.url)
    THEN [threw |-> FALSE, entry |-> UrlEntry(it.label, it.url)]
    ELSE [threw |-> FALSE, entry |-> UrlEntry(Undefined, Str(it.s))]

\* raw is [defined, items]: the setting is absent, or it is a list.
normalizeConfigEntries(raw) ==
    IF ~raw.defined
    THEN [threw |-> FALSE, entries |-> <<>>]
    ELSE IF \E i \in 1..Len(raw.items) : NormalizeEntry(raw.items[i]).threw
    THEN [threw |-> TRUE, entries |-> <<>>]
    ELSE [threw |-> FALSE,
          entries |-> [i \in 1..Len(raw.items) |-> NormalizeEntry(raw.items[i]).entry]]

(***************************************************************************)
(* Strings.                                                                *)
(***************************************************************************)
RECURSIVE Concat(_)
\* the concatenation of a sequence of strings
Concat(ss) == IF ss = <<>> THEN <<>> ELSE Head(ss) \o Concat(Tail(ss))

\* s.startsWith(p)
StartsWith(s, p) == Len(s) >= Len(p) /\ SubSeq(s, 1, Len(p)) = p

\* s.indexOf(c, from), 1-based; 0 when there is none
IndexFrom(s, c, from) ==
    IF \E j \in from..Len(s) : s[j] = c
    THEN CHOOSE j \in from..Len(s) : s[j] = c /\ \A h \in from..(j - 1) : s[h] # c
    ELSE 0

\* s.lastIndexOf(c), 1-based; 0 when there is none
LastIndexOf(s, c) ==
    IF \E j \in 1..Len(s) : s[j] = c
    THEN CHOOSE j \in 1..Len(s) : s[j] = c /\ \A h \in (j + 1)..Len(s) : s[h] # c
    ELSE 0

RECURSIVE Split(_, _)
\* s.split(c): the parts of s between the occurrences of c (always at least one part)
Split(s, c) ==
    LET j == IndexFrom(s, c, 1)
    IN  IF j = 0 THEN <<s>>
        ELSE <<SubSeq(s, 1, j - 1)>> \o Split(SubSeq(s, j + 1, Len(s)), c)

\* s.split('/').pop()
LastSegment(s) == LET parts == Split(s, "/") IN parts[Len(parts)]

IsSpace(c) == c = " "

\* s.trim()
Trim(s) ==
    IF \A j \in 1..Len(s) : IsSpace(s[j]) THEN <<>>
    ELSE LET a == CHOOSE j \in 1..Len(s) : ~IsSpace(s[j]) /\ \A h \in 1..(j - 1) : IsSpace(s[h])
             b == CHOOSE j \in 1..Len(s) : ~IsSpace(s[j]) /\ \A h \in (j + 1)..Len(s) : IsSpace(s[h])
         IN  SubSeq(s, a, b)

(***************************************************************************)
(* The editor context read by expandVariables: ctx.editor is               *)
(* vscode.window.activeTextEditor (present or not, the document's fsPath,  *)
(* its path relative to the workspace, the text of the selection and the   *)
(* 0-based line of the caret), ctx.folders is                              *)
(* vscode.workspace.workspaceFolders, ctx.cwd is process.cwd() and ctx.env *)
(* is process.env as a set of [name, value] bindings.                      *)
(***************************************************************************)
\* process.env[name] ?? ''
EnvLookup(ctx, name) ==
    IF \E b \in ctx.env : b.name = name
    THEN (CHOOSE b \in ctx.env : b.name = name).value
    ELSE <<>>

\* workspaceFolders[0]?.uri.fsPath ?? ''
FirstFolderPath(ctx) == IF ctx.folders = <<>> THEN <<>> ELSE ctx.folders[1].fsPath

\* workspaceFolders.find((f) => f.name === name)?.uri.fsPath ?? ''
FolderPathByName(ctx, name) ==
    IF \E j \in 1..Len(ctx.folders) : ctx.folders[j].name = name
    THEN LET j == CHOOSE j \in 1..Len(ctx.folders) :
                      /\ ctx.folders[j].name = name
                      /\ \A h \in 1..(j - 1) : ctx.folders[h].name # name
         IN  ctx.folders[j].fsPath
    ELSE <<>>

\* editor ? asRelativePath(editor.document.uri, false).split('/').pop() || '' : ''
Basename(ctx) == IF ctx.editor.present THEN LastSegment(ctx.editor.relPath) ELSE <<>>

\* line 33: expr.startsWith('workspaceFolder')
WorkspaceFolderRule(expr) == StartsWith(expr, <<"workspaceFolder">>)

\* line 84: process.env[expr] ?? ''
Fallback(expr, ctx) == EnvLookup(ctx, expr)

\* The replacement callback of lines 25-85.
Resolve(expr, ctx) ==
    IF StartsWith(expr, <<"env", ":">>)
    THEN EnvLookup(ctx, SubSeq(expr, 3, Len(expr)))
    ELSE IF WorkspaceFolderRule(expr)
    THEN LET parts == Split(expr, ":")
         IN  IF Len(parts) = 1 THEN FirstFolderPath(ctx)
             ELSE FolderPathByName(ctx, parts[2])
    ELSE IF expr = <<"cwd">>
    THEN ctx.cwd
    ELSE IF expr = <<"file">> \/ expr = <<"filePath">>
    THEN IF ctx.editor.present THEN ctx.editor.fsPath ELSE <<>>
    ELSE IF expr = <<"fileBasename">>
    THEN Basename(ctx)
    ELSE IF expr = <<"fileBasenameNoExtension">>
    THEN LET base == Basename(ctx)
             idx == LastIndexOf(base, ".")
         IN  IF idx > 1 THEN SubSeq(base, 1, idx - 1) ELSE base
    ELSE IF expr = <<"fileDirname">>
    THEN IF ~ctx.editor.present THEN <<>>
         ELSE LET full == ctx.editor.fsPath
                  idx == LastIndexOf(full, "/")
              IN  IF idx >= 1 THEN SubSeq(full, 1, idx - 1) ELSE <<>>
    ELSE IF expr = <<"relativeFile">>
    THEN IF ~ctx.editor.present THEN <<>> ELSE ctx.editor.relPath
    ELSE IF expr = <<"selectedText">>
    THEN IF ~ctx.editor.present THEN <<>> ELSE ctx.editor.selText
    ELSE IF expr = <<"lineNumber">>
    THEN IF ~ctx.editor.present THEN <<>> ELSE <<ToString(ctx.editor.line + 1)>>
    ELSE Fallback(expr, ctx)

\* Whether /\$\{([^}]+)\}/ matches at position i of t, and where the match ends:
\* "${", then one or more characters other than "}", then "}".  0 when it does not.
MatchEnd(t, i) ==
    IF i + 1 <= Len(t) /\ t[i] = "$" /\ t[i + 1] = "{"
    THEN LET j == IndexFrom(t, "}", i + 2) IN IF j > i + 2 THEN j ELSE 0
    ELSE 0

RECURSIVE MatchesFrom(_, _)
\* the matches of the global regular expression from position i on, left to
\* right, each search resuming after the previous match
MatchesFrom(t, i) ==
    IF i > Len(t) THEN <<>>
    ELSE IF MatchEnd(t, i) # 0
    THEN <<[from |-> i, to |-> MatchEnd(t, i)]>> \o MatchesFrom(t, MatchEnd(t, i) + 1)
    ELSE MatchesFrom(t, i + 1)

\* the regular expression without its g flag: the first match only
MatchesFirstOnly(t) ==
    LET ms == MatchesFrom(t, 1) IN IF ms = <<>> THEN <<>> ELSE <<Head(ms)>>

\* the matches template.replace visits, line 25
Matches(t) == MatchesFrom(t, 1)

\* the callback's calls: one per match, with the captured expr and the value returned
Substitutions(t, ctx) ==
    LET ms == Matches(t)
    IN  [n \in 1..Len(ms) |->
            LET expr == SubSeq(t, ms[n].from + 2, ms[n].to - 1)
            IN  [from |-> ms[n].from, to |-> ms[n].to, expr |-> expr,
                 value |-> Resolve(expr, ctx)]]

RECURSIVE Splice(_, _, _, _)
\* t from position pos on, with the substitutions n, n+1, ... put in place of their matches
Splice(t, subs, n, pos) ==
    IF n > Len(subs) THEN SubSeq(t, pos, Len(t))
    ELSE SubSeq(t, pos, subs[n].from - 1) \o subs[n].value
         \o Splice(t, subs, n + 1, subs[n].to + 1)

\* expandVariables(template), lines 20-86, on a JavaScript value.  A result is
\* [threw, out, subs]; a truthy template that is no string has no replace method, and
\* the call is a TypeError.
expandVariables(template, ctx) ==
    IF ~Truthy(template)
    THEN [threw |-> FALSE, out |-> <<>>, subs |-> <<>>]
    ELSE IF TypeOf(template) # "string"
    THEN [threw |-> TRUE, out |-> <<>>, subs |-> <<>>]
    ELSE LET subs == Substitutions(template.s, ctx)
         IN  [threw |-> FALSE, out |-> Splice(template.s, subs, 1, 1), subs |-> subs]

(***************************************************************************)
(* Inputs.                                                                 *)
(***************************************************************************)
\* the sequences over S of length at most n
SeqsUpTo(S, n) == UNION {[1..m -> S] : m \in 0..n}

\* elements of a raw openUrl.urls list: strings, null, undefined, numbers,
\* booleans, and objects with or without a url and a label
RawElems ==
    {Prim(Str(<<>>)), Prim(Str(<<"X">>)), Prim(Str(<<"$", "{", "env", ":", "X", "}">>)),
     Prim(Null), Prim(Undefined), Prim(Num0), Prim(Num42), Prim(True), Prim(False),
     Obj(Str(<<"X">>), Undefined), Obj(Str(<<"X">>), Str(<<"L">>)),
     Obj(Undefined, Undefined), Obj(Str(<<>>), Str(<<"L">>)), Obj(Num42, Undefined)}

Absent == [defined |-> FALSE, items |-> <<>>]
List(items) == [defined |-> TRUE, items |-> items]

RawInputs == {Absent} \cup {List(items) : items \in SeqsUpTo(RawElems, MaxRawLen)}

NoEditor == [present |-> FALSE, fsPath |-> <<>>, relPath |-> <<>>, selText |-> <<>>, line |-> 0]

\* no editor, no workspace folder, an empty environment
CtxEmpty == [editor |-> NoEditor, folders |-> <<>>, cwd |-> <<"/", "w">>, env |-> {}]

\* no editor, one workspace folder
CtxFolder ==
    [editor |-> NoEditor,
     folders |-> <<[name |-> <<"X">>, fsPath |-> <<"/", "a">>]>>,
     cwd |-> <<"/", "w">>,
     env |-> {[name |-> <<"workspaceFolder", "X">>, value |-> <<"e">>]}]

\* a document /a/f.t of the first of two folders, a selection, two variables
CtxFull ==
    [editor |-> [present |-> TRUE, fsPath |-> <<"/", "a", "/", "f", ".", "t">>,
                 relPath |-> <<"f", ".", "t">>, selText |-> <<"s">>, line |-> 0],
     folders |-> <<[name |-> <<"Y">>, fsPath |-> <<"/", "b">>],
                   [name |-> <<"X">>, fsPath |-> <<"/", "a">>]>>,
     cwd |-> <<"/", "w">>,
     env |-> {[name |-> <<"X">>, value |-> <<"v">>], [name |-> <<"Y">>, value |-> <<" ">>]}]

\* a dot file d/.t whose fsPath holds no "/", an empty selection, no folder
CtxDot ==
    [editor |-> [present |-> TRUE, fsPath |-> <<"c", ".", "t">>,
                 relPath |-> <<"d", "/", ".", "t">>, selText |-> <<>>, line |-> 41],
     folders |-> <<>>,
     cwd |-> <<"/", "w">>,
     env |-> {[name |-> <<"X">>, value |-> <<>>]}]

Contexts == {CtxEmpty, CtxFolder, CtxFull, CtxDot}

\* the names of rules 3-10
EditorNames ==
    {<<"file">>, <<"filePath">>, <<"fileBasename">>, <<"fileBasenameNoExtension">>,
     <<"fileDirname">>, <<"relativeFile">>, <<"selectedText">>, <<"lineNumber">>}

\* placeholder expressions: the named forms, and expressions near them
Exprs ==
    EditorNames \cup
    {<<"cwd">>, <<"env", ":", "X">>, <<"env", ":", "Z">>, <<"env", ":">>, <<"env">>,
     <<"workspaceFolder">>, <<"workspaceFolder", ":", "X">>, <<"workspaceFolder", ":", "Z">>,
     <<"workspaceFolder", "X">>, <<"X">>, <<"Z">>, <<"$", "{", "X">>}

Placeholder(expr) == <<"$", "{">> \o expr \o <<"}">>

\* the pieces templates are concatenated from: literal text, placeholders, and
\* incomplete or empty placeholders
Pieces ==
    {<<"X">>, <<" ">>, <<"$">>, <<"{">>, <<"}">>, <<"$", "{">>, <<"$", "{", "}">>}
    \cup {Placeholder(e) : e \in Exprs}

Templates == {Undefined} \cup {Str(Concat(ps)) : ps \in SeqsUpTo(Pieces, MaxSegs)}

(***************************************************************************)
(* Specifications of the two pure functions: the input is drawn by Init    *)
(* and one action applies the function.                                    *)
(***************************************************************************)
NoResult == [threw |-> FALSE, entries |-> <<>>]
NoExpansion == [threw |-> FALSE, out |-> <<>>, subs |-> <<>>]

NormalizeOff == nRaw = Absent /\ nOut = NoResult /\ nPc = "off"
ExpandOff == eTemplate = Undefined /\ eCtx = CtxEmpty /\ eOut = NoExpansion /\ ePc = "off"
CommandOff == config = Absent /\ context = CtxEmpty /\ changes = 0 /\ inv = <<>>

nVars == <<nRaw, nOut, nPc>>
eVars == <<eTemplate, eCtx, eOut, ePc>>
cVars == <<config, context, changes, inv>>

InitNormalize ==
    /\ nRaw \in RawInputs /\ nOut = NoResult /\ nPc = "start"
    /\ ExpandOff /\ CommandOff

Normalize ==
    /\ nPc = "start"
    /\ nOut' = normalizeConfigEntries(nRaw)
    /\ nPc' = "done"
    /\ UNCHANGED <<nRaw, eVars, cVars>>

SpecNormalize == InitNormalize /\ [][Normalize]_vars

InitExpand ==
    /\ eTemplate \in Templates /\ eCtx \in Contexts /\ eOut = NoExpansion /\ ePc = "start"
    /\ NormalizeOff /\ CommandOff

Expand ==
    /\ ePc = "start"
    /\ eOut' = expandVariables(eTemplate, eCtx)
    /\ ePc' = "done"
    /\ UNCHANGED <<eTemplate, eCtx, nVars, cVars>>

SpecExpand == InitExpand /\ [][Expand]_vars

(***************************************************************************)
(* Claims about normalizeConfigEntries (SpecNormalize).                    *)
(***************************************************************************)
\* the elements of the input (none when the setting is absent)
RawItems == IF nRaw.defined THEN nRaw.items ELSE <<>>

\* C1: normalizeConfigEntries never raises: for every raw input it returns a list
\* of entries instead of throwing.
NormalizeNeverRaises == nPc = "done" => ~nOut.threw

\* the entry the specification derives from an element: a string s gives {url: s},
\* an object with a truthy url gives {label, url}, anything else {url: String(element)}
DerivedEntry(it) ==
    IF it.k = "string" THEN UrlEntry(Undefined, Str(it.s))
    ELSE IF it.k = "object" /\ Truthy(it.url) THEN UrlEntry(it.label, it.url)
    ELSE UrlEntry(Undefined, Str(it.s))

\* C2: the output has the length of the input and its i-th entry is derived from
\* the i-th element; an absent input gives the empty list.
NormalizePreservesShape ==
    nPc = "done" =>
        /\ ~nOut.threw
        /\ Len(nOut.entries) = Len(RawItems)
        /\ \A i \in 1..Len(RawItems) : nOut.entries[i] = DerivedEntry(RawItems[i])

IsNonEmptyString(v) == v.k = "string" /\ v.s # <<>>

UrlTakenVerbatim(it) ==
    \/ it.k = "string" /\ it.s = <<>>
    \/ it.k = "object" /\ Truthy(it.url) /\ it.url.k # "string"

TemplateText == IF eTemplate.k = "string" THEN eTemplate.s ELSE <<>>

\* the occurrences of "${" ... "}" in t whose inner text holds no "}" and at
\* least minInner atoms
Occurrences(t, minInner) ==
    {o \in [from : 1..Len(t), to : 1..Len(t)] :
        /\ o.from + 1 <= Len(t) /\ t[o.from] = "$" /\ t[o.from + 1] = "{"
        /\ o.to >= o.from + 2 + minInner /\ t[o.to] = "}"
        /\ \A h \in (o.from + 2)..(o.to - 1) : t[h] # "}"}

\* the occurrence starts inside a replaced match
Replaced(o, subs) == \E n \in 1..Len(subs) : subs[n].from <= o.from /\ o.from <= subs[n].to

\* the expression names nothing the context can supply
Unavailable(expr, ctx) ==
    \/ expr \in EditorNames /\ ~ctx.editor.present
    \/ expr = <<"workspaceFolder">> /\ ctx.folders = <<>>
    \/ /\ StartsWith(expr, <<"workspaceFolder", ":">>)
       /\ \A j \in 1..Len(ctx.folders) : ctx.folders[j].name # Split(expr, ":")[2]
    \/ /\ StartsWith(expr, <<"env", ":">>)
       /\ \A b \in ctx.env : b.name # SubSeq(expr, 3, Len(expr))
    \/ /\ ~StartsWith(expr, <<"env", ":">>) /\ ~StartsWith(expr, <<"workspaceFolder">>)
       /\ expr \notin EditorNames \cup {<<"cwd">>}
       /\ \A b \in ctx.env : b.name # expr

RECURSIVE SumOver(_, _, _)
\* the sum of f[n] for n in lo..hi
SumOver(f, lo, hi) == IF lo > hi THEN 0 ELSE f[lo] + SumOver(f, lo + 1, hi)

\* the output is the template with every match replaced by its value
OutputIsTemplateWithValues(t, r) ==
    /\ Len(r.out) = Len(t)
                    - SumOver([n \in 1..Len(r.subs) |-> r.subs[n].to - r.subs[n].from + 1], 1, Len(r.subs))
                    + SumOver([n \in 1..Len(r.subs) |-> Len(r.subs[n].value)], 1, Len(r.subs))
    /\ \A n \in 1..Len(r.subs) :
          LET before == SumOver([m \in 1..Len(r.subs) |->
                                    Len(r.subs[m].value) - (r.subs[m].to - r.subs[m].from + 1)],
                                1, n - 1)
              at == r.subs[n].from + before
          IN  SubSeq(r.out, at, at + Len(r.subs[n].value) - 1) = r.subs[n].value
    /\ r.subs = <<>> => r.out = t

ExpandTotal(minInner) ==
    ePc = "done" =>
        /\ ~eOut.threw
        /\ \A o \in Occurrences(TemplateText, minInner) : Replaced(o, eOut.subs)
        /\ \A n \in 1..Len(eOut.subs) :
              Unavailable(eOut.subs[n].expr, eCtx) => eOut.subs[n].value = <<>>
        /\ OutputIsTemplateWithValues(TemplateText, eOut)

NamedForm(expr) ==
    \/ StartsWith(expr, <<"env", ":">>)
    \/ expr = <<"workspaceFolder">>
    \/ StartsWith(expr, <<"workspaceFolder", ":">>)
    \/ expr \in EditorNames \cup {<<"cwd">>}

\* C5: the workspace-folder rule applies only to workspaceFolder (path of the first
\* folder) and workspaceFolder:NAME (path of the folder named NAME), and every
\* expression that is none of the named forms is resolved as the environment
\* variable named by the whole expression, or the empty string.
ResolutionFollowsNamedForms ==
    ePc = "done" =>
        \A n \in 1..Len(eOut.subs) :
            LET expr == eOut.subs[n].expr
                value == eOut.subs[n].value
            IN  /\ expr = <<"workspaceFolder">> => value = FirstFolderPath(eCtx)
                /\ StartsWith(expr, <<"workspaceFolder", ":">>)
                      => value = FolderPathByName(eCtx, SubSeq(expr, 3, Len(expr)))
                /\ ~NamedForm(expr) => value = EnvLookup(eCtx, expr)

(***************************************************************************)
(* The command: openUrlAction, lines 97-130.  The handler runs to its      *)
(* first await (the picker, line 107, or the opener, line 126) in one      *)
(* step; the host resumes it when the awaited operation settles.  Several  *)
(* invocations may be in progress, and the setting and the editor context  *)
(* may change between the steps.                                           *)
(***************************************************************************)
Invocations == {"i1", "i2"}

Configs ==
    {Absent, List(<<>>), List(<<Prim(Null)>>),
     List(<<Prim(Str(<<"X">>))>>),
     List(<<Prim(Str(Placeholder(<<"selectedText">>)))>>),
     List(<<Obj(Str(Placeholder(<<"env", ":", "Y">>)), Str(<<"L">>)), Prim(Str(<<"X", " ", "X">>))>>),
     List(<<Obj(Num42, Undefined), Prim(Str(<<>>))>>)}

CommandContexts == {CtxEmpty, CtxFull}

InfoNoUrls == [kind |-> "info", text |-> <<"No URLs configured in openUrl.urls.">>]
ErrorEmpty == [kind |-> "error", text |-> <<"URL is empty after variable expansion.">>]
\* line 128: the text "Failed to open URL: " followed by String(err)
ErrorFailed(err) == [kind |-> "error", text |-> <<"Failed to open URL: ">> \o err]

TypeErrorReplace == <<"TypeError: template.replace is not a function">>
UriError == <<"Error: the URI cannot be built">>
OpenerError == <<"Error: the opener rejected">>

\* encodeURI on one atom: the characters it escapes among those of the model
EncodeAtom(c) ==
    CASE c = " " -> "%20"
      [] c = "{" -> "%7B"
      [] c = "}" -> "%7D"
      [] c = "[object Object]" -> "%5Bobject%20Object%5D"
      [] OTHER -> c

\* encodeURI(expanded), line 125
EncodeURI(s) == [j \in 1..Len(s) |-> EncodeAtom(s[j])]

\* the items handed to showQuickPick, line 108
QuickPickItem(e) ==
    [label |-> IF Nullish(e.label) THEN e.url ELSE e.label,
     description |-> IF Truthy(e.label) THEN e.url ELSE Undefined,
     entry |-> e]
QuickPickItems(entries) == [j \in 1..Len(entries) |-> QuickPickItem(entries[j])]

NoEntry == UrlEntry(Undefined, Undefined)
NoPick == [defined |-> FALSE, entry |-> NoEntry]
NoQuick == [asked |-> FALSE, defined |-> FALSE, item |-> QuickPickItem(NoEntry)]
NotExpanded == [done |-> FALSE, threw |-> FALSE, out |-> <<>>]

\* an invocation that has not started.  cfgAtStart, ctxAtStart, ctxAtExpand, uriOk
\* and openRes record what the invocation read and what the host answered.
Idle ==
    [pc |-> "idle", entries |-> <<>>, quick |-> NoQuick, pick |-> NoPick,
     expanded |-> NotExpanded, notices |-> <<>>, pickerCalls |-> <<>>,
     openerCalls |-> <<>>, escaped |-> FALSE,
     cfgAtStart |-> Absent, ctxAtStart |-> CtxEmpty, ctxAtExpand |-> CtxEmpty,
     uriOk |-> TRUE, openRes |-> "none"]

\* the test of line 120 without the trim
IsBlankNoTrim(expanded) == expanded = <<>>

\* line 120: !expanded || expanded.trim().length === 0
IsBlank(expanded) == expanded = <<>> \/ Len(Trim(expanded)) = 0

\* line 111 keeping the initial value of line 103 when the picker returns nothing
PickOfQuickKeepFirst(entries, quick) ==
    IF quick.defined THEN [defined |-> TRUE, entry |-> quick.item.entry]
    ELSE [defined |-> TRUE, entry |-> entries[1]]

\* line 111: pick = quick?.entry
PickOfQuick(entries, quick) ==
    IF quick.defined THEN [defined |-> TRUE, entry |-> quick.item.entry] ELSE NoPick

\* the context as it was when the invocation started
ContextAtStart(i) == inv[i].ctxAtStart

\* lines 22-23: expandVariables reads the editor and the workspace folders when it
\* is called, at the invocation's expansion step
ContextOfExpansion(i) == context

\* Lines 118-129 up to the await of line 126, for an invocation r with a pick:
\* uriOk tells whether encodeURI and vscode.Uri.parse return (they may throw).
TryOpen(r, ctx, uriOk) ==
    LET x == expandVariables(r.pick.entry.url, ctx)
        r1 == [r EXCEPT !.ctxAtExpand = context,
                        !.expanded = [done |-> TRUE, threw |-> x.threw, out |-> x.out]]
    IN  IF x.threw
        THEN [r1 EXCEPT !.notices = Append(@, ErrorFailed(TypeErrorReplace)), !.pc = "done"]
        ELSE IF IsBlank(x.out)
        THEN [r1 EXCEPT !.notices = Append(@, ErrorEmpty), !.pc = "done"]
        ELSE IF ~uriOk
        THEN [r1 EXCEPT !.uriOk = FALSE,
                        !.notices = Append(@, ErrorFailed(UriError)), !.pc = "done"]
        ELSE [r1 EXCEPT !.openerCalls = Append(@, EncodeURI(x.out)), !.pc = "opening"]

\* The command is triggered: lines 98-112 up to the picker, or through line 126.
Invoke(i) ==
    /\ inv[i].pc = "idle"
    /\ LET n == normalizeConfigEntries(config)
           r == [inv[i] EXCEPT !.cfgAtStart = config, !.ctxAtStart = context,
                               !.entries = n.entries]
       IN  IF n.threw
           THEN inv' = [inv EXCEPT ![i] = [r EXCEPT !.escaped = TRUE, !.pc = "done"]]
           ELSE IF Len(n.entries) = 0
           THEN inv' = [inv EXCEPT ![i] = [r EXCEPT !.notices = Append(@, InfoNoUrls),
                                                    !.pc = "done"]]
           ELSE IF Len(n.entries) = 1
           THEN \E uriOk \in BOOLEAN :
                   inv' = [inv EXCEPT ![i] =
                              TryOpen([r EXCEPT !.pick = [defined |-> TRUE, entry |-> n.entries[1]]],
                                      ContextOfExpansion(i), uriOk)]
           ELSE inv' = [inv EXCEPT ![i] =
                           [r EXCEPT !.pickerCalls = Append(@, QuickPickItems(n.entries)),
                                     !.pick = [defined |-> TRUE, entry |-> n.entries[1]],
                                     !.pc = "picking"]]
    /\ UNCHANGED <<config, context, changes, nVars, eVars>>

\* showQuickPick settles: with item k of those it was given, or with undefined
\* (k = 0) when the user dismisses it.  Lines 111-126.
PickerReturn(i) ==
    /\ inv[i].pc = "picking"
    /\ LET items == inv[i].pickerCalls[Len(inv[i].pickerCalls)]
       IN  \E k \in 0..Len(items) :
              LET quick == IF k = 0 THEN [NoQuick EXCEPT !.asked = TRUE]
                           ELSE [asked |-> TRUE, defined |-> TRUE, item |-> items[k]]
                  r == [inv[i] EXCEPT !.quick = quick,
                                      !.pick = PickOfQuick(inv[i].entries, quick)]
              IN  IF ~r.pick.defined
                  THEN inv' = [inv EXCEPT ![i] = [r EXCEPT !.pc = "done"]]
                  ELSE \E uriOk \in BOOLEAN :
                          inv' = [inv EXCEPT ![i] = TryOpen(r, ContextOfExpansion(i), uriOk)]
    /\ UNCHANGED <<config, context, changes, nVars, eVars>>

\* openExternal settles: resolved with true or false, or rejected.  Lines 126-129.
OpenerReturn(i) ==
    /\ inv[i].pc = "opening"
    /\ \E res \in {"true", "false", "rejected"} :
          inv' = [inv EXCEPT ![i] =
                     [@ EXCEPT !.openRes = res,
                               !.notices = IF res = "rejected"
                                           THEN Append(@, ErrorFailed(OpenerError)) ELSE @,
                               !.pc = "done"]]
    /\ UNCHANGED <<config, context, changes, nVars, eVars>>

\* the user edits the openUrl.urls setting
ChangeConfig ==
    /\ changes < MaxChanges
    /\ \E c \in Configs \ {config} : config' = c
    /\ changes' = changes + 1
    /\ UNCHANGED <<context, inv, nVars, eVars>>

\* the user switches editor, moves the selection or changes the workspace
ChangeContext ==
    /\ changes < MaxChanges
    /\ \E c \in CommandContexts \ {context} : context' = c
    /\ changes' = changes + 1
    /\ UNCHANGED <<config, inv, nVars, eVars>>

Init ==
    /\ config \in Configs /\ context \in CommandContexts /\ changes = 0
    /\ inv = [i \in Invocations |-> Idle]
    /\ NormalizeOff /\ ExpandOff

Next ==
    \/ \E i \in Invocations : Invoke(i)
    \/ \E i \in Invocations : PickerReturn(i)
    \/ \E i \in Invocations : OpenerReturn(i)
    \/ ChangeConfig
    \/ ChangeContext

Spec == Init /\ [][Next]_vars

(***************************************************************************)
(* Claims about the command (Spec).                                        *)
(***************************************************************************)
AllBlank(s) == \A j \in 1..Len(s) : IsSpace(s[j])

\* C6: with zero entries the result is none and the picker is never invoked; with
\* one entry the result is that entry and the picker is never invoked; with more
\* the picker is invoked exactly once with all entries in configuration order and
\* its result (the chosen entry or none) is used unchanged.
SelectionFollowsEntryCount ==
    \A i \in Invocations :
        LET r == inv[i]
        IN  (r.pc # "idle" /\ ~r.escaped) =>
               /\ r.entries = normalizeConfigEntries(r.cfgAtStart).entries
               /\ Len(r.entries) = 0 => r.pickerCalls = <<>> /\ ~r.pick.defined
               /\ Len(r.entries) = 1 =>
                     r.pickerCalls = <<>> /\ r.pick = [defined |-> TRUE, entry |-> r.entries[1]]
               /\ Len(r.entries) > 1 =>
                     /\ Len(r.pickerCalls) = 1
                     /\ [j \in 1..Len(r.pickerCalls[1]) |-> r.pickerCalls[1][j].entry] = r.entries
                     /\ r.pc # "picking" =>
                           /\ r.quick.asked
                           /\ r.pick.defined = r.quick.defined
                           /\ r.quick.defined =>
                                 /\ \E j \in 1..Len(r.entries) : r.quick.item = r.pickerCalls[1][j]
                                 /\ r.pick.entry = r.quick.item.entry

\* an invocation with two entries whose picker returned the second, which was opened
PickedSecondOfTwo ==
    \E i \in Invocations :
        /\ inv[i].pc = "done" /\ Len(inv[i].entries) = 2
        /\ inv[i].quick.defined /\ inv[i].quick.item = inv[i].pickerCalls[1][2]
        /\ inv[i].pick.entry = inv[i].entries[2]
        /\ Len(inv[i].openerCalls) = 1

\* C7: the opener is invoked at most once, and only after an entry has been selected
\* and its expanded url is neither empty nor all-whitespace; with no entries the
\* informational notice is shown and the opener is never invoked; with an empty or
\* all-whitespace expansion the error notice is shown and the opener is never invoked.
OpenerOnlyForNonBlankUrl ==
    \A i \in Invocations :
        LET r == inv[i]
        IN  /\ Len(r.openerCalls) <= 1
            /\ Len(r.openerCalls) = 1 =>
                  /\ r.pick.defined /\ r.expanded.done /\ ~r.expanded.threw
                  /\ r.expanded.out # <<>> /\ ~AllBlank(r.expanded.out)
                  /\ r.openerCalls[1] = EncodeURI(r.expanded.out)
            /\ (r.pc # "idle" /\ ~r.escaped /\ r.entries = <<>>) =>
                  r.notices = <<InfoNoUrls>> /\ r.openerCalls = <<>>
            /\ (r.expanded.done /\ ~r.expanded.threw /\ AllBlank(r.expanded.out)) =>
                  r.notices = <<ErrorEmpty>> /\ r.openerCalls = <<>> /\ r.pc = "done"

\* one invocation stopped at an expansion of white space only, another opened a url
BlankStoppedAndUrlOpened ==
    \E i, j \in Invocations :
        /\ inv[i].expanded.done /\ inv[i].expanded.out # <<>> /\ AllBlank(inv[i].expanded.out)
        /\ inv[i].notices = <<ErrorEmpty>>
        /\ inv[j].pc = "done" /\ Len(inv[j].openerCalls) = 1 /\ inv[j].openRes = "true"

\* C8: whenever the opener (or building its URI) rejects or throws, the invocation
\* shows exactly one error message carrying the failure and ends normally; no
\* invocation ever ends with an exception propagating out of the command handler.
FailuresSurfaceOnceAtOrchestrator ==
    \A i \in Invocations :
        LET r == inv[i]
        IN  /\ ~r.escaped
            /\ (r.pc = "done" /\ r.openRes = "rejected") => r.notices = <<ErrorFailed(OpenerError)>>
            /\ (r.pc = "done" /\ ~r.uriOk) => r.notices = <<ErrorFailed(UriError)>>

\* C9: when more than one entry is configured and the picker returns none, the
\* invocation ends normally and silently: no notice, no expansion, no opener call.
CancelledPickerEndsSilently ==
    \A i \in Invocations :
        LET r == inv[i]
        IN  (Len(r.entries) > 1 /\ r.quick.asked /\ ~r.quick.defined) =>
               /\ r.pc = "done" /\ ~r.escaped
               /\ r.notices = <<>> /\ ~r.expanded.done /\ r.openerCalls = <<>>

\* an invocation with two entries whose picker was dismissed
PickerDismissed ==
    \E i \in Invocations :
        /\ inv[i].pc = "done" /\ Len(inv[i].entries) = 2
        /\ Len(inv[i].pickerCalls) = 1 /\ inv[i].quick.asked /\ ~inv[i].quick.defined

\* what an invocation did that the user and the host can observe
Outcome(r) == [notices |-> r.notices, opened |-> r.openerCalls, escaped |-> r.escaped]

\* the outcome of the command run alone, from start to end, on one reading of the
\* setting, one answer of the picker, one reading of the context and the host's answers
SoloOutcome(cfg, quick, ctx, uriOk, openRes) ==
    LET n == normalizeConfigEntries(cfg)
        silent == [notices |-> <<>>, opened |-> <<>>, escaped |-> FALSE]
    IN  IF n.threw THEN [silent EXCEPT !.escaped = TRUE]
        ELSE IF n.entries = <<>> THEN [silent EXCEPT !.notices = <<InfoNoUrls>>]
        ELSE IF Len(n.entries) > 1 /\ ~quick.defined THEN silent
        ELSE LET chosen == IF Len(n.entries) = 1 THEN n.entries[1] ELSE quick.item.entry
                 x == expandVariables(chosen.url, ctx)
             IN  IF x.threw THEN [silent EXCEPT !.notices = <<ErrorFailed(TypeErrorReplace)>>]
                 ELSE IF AllBlank(x.out) THEN [silent EXCEPT !.notices = <<ErrorEmpty>>]
                 ELSE IF ~uriOk THEN [silent EXCEPT !.notices = <<ErrorFailed(UriError)>>]
                 ELSE [silent EXCEPT
                          !.opened = <<EncodeURI(x.out)>>,
                          !.notices = IF openRes = "rejected"
                                      THEN <<ErrorFailed(OpenerError)>> ELSE <<>>]

====
